---- MODULE Spec2Model ----
(***************************************************************************)
(* Model of the essay pipeline of corrector-backend (main.py, models.py,   *)
(* llm_services.py): the User / ExamPaper / ExamImage tables and the       *)
(* request handlers that upload, transcribe, edit, correct and delete a    *)
(* paper.  A handler is cut at its `await`s on the language model: the     *)
(* code between two awaits runs without interruption on the event loop.    *)
(*                                                                         *)
(* Text is a sequence of tokens (whitespace, words, the page header and    *)
(* footer lines, the two placeholders), so that str.strip(), truthiness    *)
(* and concatenation are computed and not assumed.  An Optional value is   *)
(* a sequence of length 0 (None) or 1.  Timestamps are abstracted to       *)
(* unset / set.                                                            *)
(***************************************************************************)
EXTENDS Integers, Sequences, FiniteSets, TLC

\* ---------------------------------------------------------------- bounds
MaxPapers == 1
MaxPages == 2
MaxCredits == 6

\* ------------------------------------------------------ program constants
MAX_EXAM_PAPERS_PER_USER == 20
TRANSCRIPTION_COST == 1
CORRECTION_COST == 5
CORRECTION_PROMPT_VERSION_CURRENT == "1.0"

Users == {"u1", "u2"}
Slots == {"a", "b"}

VARIABLES
    users,        \* table user: id -> credits, for the rows that exist
    papers,       \* table exampaper: id -> row, for the rows that exist
    images,       \* table examimage: set of rows
    nextPaperId,  \* next value of the exampaper.id sequence
    nextImageId,  \* next value of the examimage.id sequence
    reqs,         \* the requests in flight, one per slot
    resp,         \* the last response sent, with what it was sent for
    billed        \* history: the <<paper, step>> pairs, of the papers that exist,
                  \* whose debit was committed

vars == <<users, papers, images, nextPaperId, nextImageId, reqs, resp, billed>>

\* ------------------------------------------------------------------ text
None == <<>>
Some(x) == <<x>>
IsNone(o) == o = <<>>
Val(o) == o[1]

WS == [k |-> "ws", n |-> 0]
Word(i) == [k |-> "word", n |-> i]
Hdr(n) == [k |-> "hdr", n |-> n]
Ftr(n) == [k |-> "ftr", n |-> n]
EmptyMark == [k |-> "empty", n |-> 0]
ErrorMark == [k |-> "err", n |-> 0]

RECURSIVE LStrip(_)
LStrip(s) == IF s # <<>> /\ Head(s) = WS THEN LStrip(Tail(s)) ELSE s

RECURSIVE RStrip(_)
RStrip(s) ==
    IF s # <<>> /\ s[Len(s)] = WS THEN RStrip(SubSeq(s, 1, Len(s) - 1)) ELSE s

Strip(s) == RStrip(LStrip(s))

\* `x and x.strip()` on an Optional[str]
NonBlank(o) == ~IsNone(o) /\ Strip(Val(o)) # <<>>

RECURSIVE Join(_)
Join(parts) == IF parts = <<>> THEN <<>> ELSE Head(parts) \o Join(Tail(parts))

\* ---------------------------------------------------------------- tables
NewPaper(u) ==
    [user_id |-> u, status |-> "uploaded", transcribed_text |-> None,
     transcription_credits_consumed |-> 0, corrected_feedback |-> None,
     correction_credits_consumed |-> 0, correction_prompt_version |-> None,
     corrected_at |-> None]

ImagesOf(p) == {i \in images : i.exam_paper_id = p}

\* mutant: the count is not scoped to the user
PaperCountAll(u) == Cardinality(DOMAIN papers)

PaperCount(u) == Cardinality({p \in DOMAIN papers : papers[p].user_id = u})

\* -------------------------------------------------------------- requests
Idle ==
    [pc |-> "idle", op |-> "none", user |-> "none", paper |-> 0, pages |-> <<>>,
     idx |-> 0, parts |-> <<>>, failed |-> FALSE, outs |-> <<>>,
     feedback |-> None, ok |-> FALSE,
     pre |-> [paper |-> None, credits |-> None, count |-> 0]]

NoResp == [op |-> "none", user |-> "none", paper |-> 0, code |-> 0,
           pre |-> [paper |-> None, credits |-> None, count |-> 0], outs |-> <<>>,
           committed |-> FALSE, recovered |-> FALSE, refreshed |-> FALSE,
           via |-> None, input |-> None, store |-> "none",
           body |-> [current_paper_count |-> 0, max_paper_quota |-> 0,
                     credits |-> 0, ids |-> <<>>]]

Quiet == \A s \in Slots : reqs[s].pc = "idle"
FreeSlot == IF reqs["a"].pc = "idle" THEN "a" ELSE "b"
HasFreeSlot == reqs[FreeSlot].pc = "idle"

\* history: the rows a request found when it arrived, and the number of
\* papers of its user
Pre(u, p) ==
    [paper |-> IF p \in DOMAIN papers THEN Some(papers[p]) ELSE None,
     credits |-> IF u \in DOMAIN users THEN Some(users[u]) ELSE None,
     count |-> PaperCount(u)]

\* a response: the request it answers and the status code, with the history
\* of the request: the rows it found, the outcomes of its calls of the
\* language model, whether its final write was committed, whether the
\* recovery write (had it been tried) was, the text or files it submitted,
\* whether the refreshes after the final commit returned, the status that
\* commit wrote when a recovery write followed it, how its call of the object
\* store went, and the body of the answer
Reply(op, u, p, code, pre, extra) ==
    [op |-> op, user |-> u, paper |-> p, code |-> code, pre |-> pre,
     outs |-> extra.outs, committed |-> extra.committed,
     recovered |-> extra.recovered, refreshed |-> extra.refreshed,
     via |-> extra.via,
     input |-> extra.input, store |-> extra.store, body |-> extra.body]

NoBody == [current_paper_count |-> 0, max_paper_quota |-> 0, credits |-> 0,
           ids |-> <<>>]

NoCalls == [outs |-> <<>>, committed |-> FALSE, recovered |-> FALSE,
            refreshed |-> FALSE, via |-> None, input |-> None, store |-> "none",
            body |-> NoBody]
Removal(storeok, committed) ==
    [NoCalls EXCEPT !.committed = committed,
                    !.store = IF storeok THEN "ok" ELSE "failed"]
Submitted(text) == [NoCalls EXCEPT !.committed = TRUE, !.input = Some(text)]
Sent(files, committed) == [NoCalls EXCEPT !.committed = committed, !.input = Some(files)]
Undone(files, cleanok) == [Sent(files, FALSE) EXCEPT !.recovered = cleanok]

Init ==
    /\ \E c \in 0..MaxCredits : users = ("u1" :> c)
    /\ papers = <<>>
    /\ images = {}
    /\ nextPaperId = 1
    /\ nextImageId = 1
    /\ reqs = [s \in Slots |-> Idle]
    /\ resp = NoResp
    /\ billed = {}

\* ---------------------------------------------------------------- upload
FileKinds == {"image", "not_image", "too_large", "store_error"}

\* the first file the loop of the upload stops at, 0 when it stops at none
RECURSIVE FirstBad(_, _)
FirstBad(files, i) ==
    IF i > Len(files) THEN 0
    ELSE IF files[i] # "image" THEN i ELSE FirstBad(files, i + 1)

\* mutant: the quota is reached one paper early
QuotaReachedEarly(count) == count >= MAX_EXAM_PAPERS_PER_USER - 1

\* mutant: the quota is compared one too late
QuotaReachedLate(count) == count > MAX_EXAM_PAPERS_PER_USER

QuotaReached(count) == count >= MAX_EXAM_PAPERS_PER_USER

\* mutant: the image rows carry the id of another paper
NewImagesElsewhere(p, n) ==
    {[id |-> nextImageId + k - 1, exam_paper_id |-> p + 1, page_number |-> Some(k)] :
        k \in 1..n}

\* mutant: the pages are numbered from 0
NewImagesFromZero(p, n) ==
    {[id |-> nextImageId + k - 1, exam_paper_id |-> p, page_number |-> Some(k - 1)] :
        k \in 1..n}

NewImages(p, n) ==
    {[id |-> nextImageId + k - 1, exam_paper_id |-> p, page_number |-> Some(k)] :
        k \in 1..n}

\* POST /exam_papers/upload_multiple_images/.  The paper row (and the user
\* row, when the identity has none) is committed first; a failure at any file
\* or at the commit of the image rows deletes the paper row again.
Upload(u, files, dbok) ==
    /\ Quiet
    /\ dbok \/ FirstBad(files, 1) = 0     \* the commit is reached with good files only
    /\ nextPaperId <= MaxPapers
    /\ UNCHANGED <<reqs, billed>>
    /\ IF QuotaReached(PaperCount(u))
       THEN /\ resp' = Reply("upload", u, 0, 403, Pre(u, 0), NoCalls)
            /\ UNCHANGED <<users, papers, images, nextPaperId, nextImageId>>
       ELSE /\ users' = IF u \in DOMAIN users THEN users ELSE users @@ (u :> 0)
            /\ nextPaperId' = nextPaperId + 1
            /\ IF FirstBad(files, 1) = 0 /\ dbok
               THEN /\ papers' = papers @@ (nextPaperId :> NewPaper(u))
                    /\ images' = images \cup NewImages(nextPaperId, Len(files))
                    /\ nextImageId' = nextImageId + Len(files)
                    /\ resp' = Reply("upload", u, nextPaperId, 200, Pre(u, 0),
                                     Sent(files, TRUE))
               ELSE /\ resp' = Reply("upload", u, nextPaperId, 500, Pre(u, 0),
                                     Sent(files, FALSE))
                    /\ UNCHANGED <<papers, images, nextImageId>>

\* ------------------------------------------------------------ transcribe
\* mutant: a paper in transcribing is transcribed again
TranscribeAllowedStuck(status) ==
    status \in {"uploaded", "error_transcription", "transcribing"}

\* mutant: only the states in flight are refused
TranscribeAllowedRetry(status) == status \notin {"transcribing", "correcting"}

TranscribeAllowed(status) == status \in {"uploaded", "error_transcription"}

\* mutant: the comparison is off by one
EnoughCreditsOffByOne(credits, cost) == ~(credits + 1 < cost)

EnoughCredits(credits, cost) == ~(credits < cost)

\* the checks of the handler, in the order of the code; 0 when it goes on
TranscribeCheck(u, p) ==
    IF p \notin DOMAIN papers THEN 404
    ELSE IF papers[p].user_id # u THEN 403
    ELSE IF ImagesOf(p) = {} THEN 400
    ELSE IF ~TranscribeAllowed(papers[p].status) THEN 409
    ELSE IF u \notin DOMAIN users THEN 404
    ELSE IF ~EnoughCredits(users[u], TRANSCRIPTION_COST) THEN 402
    ELSE 0

\* sorted(images, key = page_number, None last); the sort is stable and the
\* relationship loads the rows in id order
\* mutant: a row without page_number sorts first
SortKeyNoneFirst(i) == IF IsNone(i.page_number) THEN [inf |-> 0, n |-> 0, id |-> i.id]
                       ELSE [inf |-> 1, n |-> Val(i.page_number), id |-> i.id]

SortKey(i) == IF IsNone(i.page_number) THEN [inf |-> 1, n |-> 0, id |-> i.id]
              ELSE [inf |-> 0, n |-> Val(i.page_number), id |-> i.id]

KeyLess(a, b) ==
    \/ a.inf < b.inf
    \/ a.inf = b.inf /\ a.n < b.n
    \/ a.inf = b.inf /\ a.n = b.n /\ a.id < b.id

RECURSIVE SortedImages(_)
SortedImages(S) ==
    IF S = {} THEN <<>>
    ELSE LET m == CHOOSE i \in S : \A j \in S \ {i} : KeyLess(SortKey(i), SortKey(j))
         IN  <<m>> \o SortedImages(S \ {m})

\* `image_obj.page_number or index + 1`
PageLabel(img, index) ==
    IF IsNone(img.page_number) \/ Val(img.page_number) = 0
    THEN index + 1 ELSE Val(img.page_number)

PagePrefix(n) == <<Hdr(n), WS>>
PageSuffix(n) == <<WS, Ftr(n), WS, WS>>

\* an outcome of one call of the language model
Raised == [raised |-> TRUE, text |-> <<>>]
Returned(t) == [raised |-> FALSE, text |-> t]

\* the part appended for one page
PagePart(n, out) ==
    IF out.raised THEN PagePrefix(n) \o <<ErrorMark>> \o PageSuffix(n)
    ELSE IF NonBlank(Some(out.text))
         THEN PagePrefix(n) \o Strip(out.text) \o PageSuffix(n)
         ELSE PagePrefix(n) \o <<EmptyMark>> \o PageSuffix(n)

PageFailed(out) == out.raised

\* mutant: the final write leaves the transitional status
TranscribeResultInFlight(text, failed) ==
    [status |-> "transcribing", store |-> text # <<>>, bill |-> FALSE]

\* what the final write of a transcription stores, given the joined text and
\* the failure flag
TranscribeResult(text, failed) ==
    IF text # <<>>
    THEN IF failed
         THEN [status |-> "error_transcription", store |-> TRUE, bill |-> FALSE]
         ELSE [status |-> "transcribed", store |-> TRUE, bill |-> TRUE]
    ELSE [status |-> "error_transcription", store |-> FALSE, bill |-> FALSE]

\* mutant: the debit uses the cost of the other step
DebitOtherCost(credits, cost) ==
    credits - (IF cost = TRANSCRIPTION_COST THEN CORRECTION_COST ELSE TRANSCRIPTION_COST)

Debit(credits, cost) == credits - cost

\* mutant: the transitional status is not written
MarkInFlightSkipped(row, status) == row

\* the transitional write, committed before the first await
MarkInFlight(row, status) == [row EXCEPT !.status = status]

\* the handler up to its first await: the checks and the transitional write
TranscribeStart(u, p) ==
    /\ HasFreeSlot
    /\ UNCHANGED <<users, images, nextPaperId, nextImageId, billed>>
    /\ LET code == TranscribeCheck(u, p) IN
       IF code # 0
       THEN /\ resp' = Reply("transcribe", u, p, code, Pre(u, p), NoCalls)
            /\ UNCHANGED <<papers, reqs>>
       ELSE /\ papers' = [papers EXCEPT ![p] = MarkInFlight(@, "transcribing")]
            /\ reqs' = [reqs EXCEPT ![FreeSlot] =
                   [Idle EXCEPT !.pc = "ai", !.op = "transcribe", !.user = u,
                                !.paper = p, !.pages = SortedImages(ImagesOf(p)),
                                !.idx = 1, !.pre = Pre(u, p)]]
            /\ resp' = NoResp

TranscribeBegin(u, p) == Quiet /\ TranscribeStart(u, p)

PageOutputs == {<<>>, <<WS>>, <<WS, Word(0), WS>>}
PageOutcomes == {Raised} \cup {Returned(t) : t \in PageOutputs}

\* one pass of the loop over the pages: the call of the language model for
\* page idx and the part it appends
TranscribePage(s, out) ==
    /\ reqs[s].pc = "ai" /\ reqs[s].op = "transcribe"
    /\ LET r == reqs[s]
           img == r.pages[r.idx]
           n == PageLabel(img, r.idx - 1)
       IN reqs' = [reqs EXCEPT ![s] =
              [r EXCEPT !.parts = Append(r.parts, PagePart(n, out)),
                        !.failed = r.failed \/ PageFailed(out),
                        !.outs = Append(r.outs, out),
                        !.idx = r.idx + 1,
                        !.pc = IF r.idx = Len(r.pages) THEN "final" ELSE "ai"]]
    /\ UNCHANGED <<users, papers, images, nextPaperId, nextImageId, resp, billed>>

Extra(r, committed, postok, recok, via) ==
    [NoCalls EXCEPT !.outs = r.outs, !.committed = committed,
                    !.refreshed = committed /\ postok, !.recovered = recok,
                    !.via = via]

\* mutant: the except branch answers without the recovery write
RecoverSkipped(rows, p, errstatus, recok) == rows

\* the recovery write of the except branch: the row is read again and forced
\* to the error status; its own failure is swallowed
Recover(rows, p, errstatus, recok) ==
    IF p \in DOMAIN rows /\ rows[p].status # errstatus /\ recok
    THEN [rows EXCEPT ![p].status = errstatus]
    ELSE rows

\* session.commit() of the final write: the paper row and the user row are
\* written by one transaction, or neither is (the rollback of the except
\* branch, where the recovery write is then tried)
CommitBoth(ok, newPapers, newUsers, recovered) ==
    IF ok THEN [papers |-> newPapers, users |-> newUsers]
    ELSE [papers |-> recovered, users |-> users]

\* mutant: the final write goes on without the paper row
RowsFoundUser(p, u) == u \in DOMAIN users

\* session.refresh() of the user row and of the paper row, at the start of
\* the final write: it raises for a row that is gone
RowsFound(p, u) == p \in DOMAIN papers /\ u \in DOMAIN users

\* the end of the try block of a final write: the commit, then the refreshes
\* of the two rows.  A refresh that raises after the commit went through
\* reaches the same except branch: the rollback finds nothing to undo and the
\* recovery write is tried on the rows just committed.
FinalWrite(ok, postok, newPapers, newUsers, p, errstatus, recok) ==
    IF ok /\ ~postok
    THEN [papers |-> Recover(newPapers, p, errstatus, recok), users |-> newUsers,
          via |-> Some(newPapers[p].status)]
    ELSE LET c == CommitBoth(ok, newPapers, newUsers,
                             Recover(papers, p, errstatus, recok))
         IN  [papers |-> c.papers, users |-> c.users, via |-> None]

\* the final write of a transcription; dbok says whether its commit goes
\* through, recok whether the commit of the recovery write does
TranscribeFinal(s, dbok, postok, recok) ==
    /\ reqs[s].pc = "final" /\ reqs[s].op = "transcribe"
    /\ postok \/ dbok                     \* the refreshes follow the commit
    /\ recok \/ ~dbok \/ ~postok          \* the recovery write follows a failure
    /\ LET r == reqs[s]
           p == r.paper
           u == r.user
           text == Strip(Join(r.parts))
           res == TranscribeResult(text, r.failed)
       IN
       /\ reqs' = [reqs EXCEPT ![s] = Idle]
       /\ UNCHANGED <<images, nextPaperId, nextImageId>>
       /\ LET ok == RowsFound(p, u) /\ dbok
              newPapers ==
                  [papers EXCEPT ![p] =
                      [@ EXCEPT !.status = res.status,
                                !.transcribed_text =
                                    IF res.store THEN Some(text) ELSE @,
                                !.transcription_credits_consumed =
                                    IF res.bill THEN TRANSCRIPTION_COST ELSE @]]
              newUsers ==
                  IF res.bill THEN [users EXCEPT ![u] = Debit(@, TRANSCRIPTION_COST)]
                  ELSE users
              new == FinalWrite(ok, postok, newPapers, newUsers,
                                p, "error_transcription", recok)
          IN /\ papers' = new.papers
             /\ users' = new.users
             /\ billed' = IF new.users # users
                          THEN billed \cup {<<p, "transcription">>} ELSE billed
             /\ resp' = Reply("transcribe", u, p,
                              IF ok /\ postok /\ ~(text = <<>> /\ r.failed)
                              THEN 200 ELSE 500,
                              r.pre, Extra(r, ok, postok, recok, new.via))

\* --------------------------------------------------------------- correct
\* mutant: a failed correction may be tried again
CorrectAllowedRetry(status) == status \in {"transcribed", "error_correction"}

CorrectAllowed(status) == status = "transcribed"

\* mutant: the text is only tested for being set
HasTextSet(text) == ~IsNone(text)

\* mutant: the text is not stripped before it is tested
HasTextNoStrip(text) == ~IsNone(text) /\ Val(text) # <<>>

\* `not text or not text.strip()` rejects
HasText(text) == NonBlank(text)

\* mutant: the owner is not checked
CorrectCheckAnyUser(u, p) ==
    IF p \notin DOMAIN papers THEN 404
    ELSE IF ~CorrectAllowed(papers[p].status) THEN 409
    ELSE IF ~HasText(papers[p].transcribed_text) THEN 400
    ELSE IF u \notin DOMAIN users THEN 500
    ELSE IF ~EnoughCredits(users[u], CORRECTION_COST) THEN 402
    ELSE 0

CorrectCheck(u, p) ==
    IF p \notin DOMAIN papers THEN 404
    ELSE IF papers[p].user_id # u THEN 403
    ELSE IF ~CorrectAllowed(papers[p].status) THEN 409
    ELSE IF ~HasText(papers[p].transcribed_text) THEN 400
    ELSE IF u \notin DOMAIN users THEN 500
    ELSE IF ~EnoughCredits(users[u], CORRECTION_COST) THEN 402
    ELSE 0

CorrectStart(u, p) ==
    /\ HasFreeSlot
    /\ UNCHANGED <<users, images, nextPaperId, nextImageId, billed>>
    /\ LET code == CorrectCheck(u, p) IN
       IF code # 0
       THEN /\ resp' = Reply("correct", u, p, code, Pre(u, p), NoCalls)
            /\ UNCHANGED <<papers, reqs>>
       ELSE /\ papers' = [papers EXCEPT ![p] = MarkInFlight(@, "correcting")]
            /\ reqs' = [reqs EXCEPT ![FreeSlot] =
                   [Idle EXCEPT !.pc = "ai", !.op = "correct", !.user = u,
                                !.paper = p,
                                !.parts = <<Val(papers[p].transcribed_text)>>,
                                !.pre = Pre(u, p)]]
            /\ resp' = NoResp

CorrectBegin(u, p) == Quiet /\ CorrectStart(u, p)

FeedbackOutputs == {<<>>, <<WS>>, <<Word(2), WS>>}
FeedbackOutcomes == {Raised} \cup {Returned(t) : t \in FeedbackOutputs}

\* mutant: the feedback is not stripped before it is tested
CorrectionSuccessfulNoStrip(out) == ~out.raised /\ out.text # <<>>

\* `correction_feedback_result and correction_feedback_result.strip()`
CorrectionSuccessful(out) == ~out.raised /\ NonBlank(Some(out.text))

\* the call of the language model on the transcribed text
CorrectCall(s, out) ==
    /\ reqs[s].pc = "ai" /\ reqs[s].op = "correct"
    /\ reqs' = [reqs EXCEPT ![s] =
           [@ EXCEPT !.feedback = IF out.raised THEN None ELSE Some(out.text),
                     !.ok = CorrectionSuccessful(out),
                     !.outs = <<out>>,
                     !.pc = "final"]]
    /\ UNCHANGED <<users, papers, images, nextPaperId, nextImageId, resp, billed>>

\* mutant: the success branch leaves the audit field and the timestamp out
CorrectedRowNoAudit(row, ok, feedback) ==
    IF ok /\ ~IsNone(feedback) /\ Val(feedback) # <<>>
    THEN [row EXCEPT !.corrected_feedback = feedback,
                     !.status = "corrected",
                     !.correction_prompt_version =
                         Some(CORRECTION_PROMPT_VERSION_CURRENT)]
    ELSE [row EXCEPT !.status = "error_correction"]

\* the row a correction writes
CorrectedRow(row, ok, feedback) ==
    IF ok /\ ~IsNone(feedback) /\ Val(feedback) # <<>>
    THEN [row EXCEPT !.corrected_feedback = feedback,
                     !.status = "corrected",
                     !.correction_credits_consumed = CORRECTION_COST,
                     !.correction_prompt_version =
                         Some(CORRECTION_PROMPT_VERSION_CURRENT),
                     !.corrected_at = Some("now")]
    ELSE [row EXCEPT !.status = "error_correction"]

CorrectionBilled(ok, feedback) == ok /\ ~IsNone(feedback) /\ Val(feedback) # <<>>

\* the final write of a correction, as for a transcription
CorrectFinal(s, dbok, postok, recok) ==
    /\ reqs[s].pc = "final" /\ reqs[s].op = "correct"
    /\ postok \/ dbok
    /\ recok \/ ~dbok \/ ~postok
    /\ LET r == reqs[s]
           p == r.paper
           u == r.user
           bill == CorrectionBilled(r.ok, r.feedback)
       IN
       /\ reqs' = [reqs EXCEPT ![s] = Idle]
       /\ UNCHANGED <<images, nextPaperId, nextImageId>>
       /\ LET ok == RowsFound(p, u) /\ dbok
              newPapers == [papers EXCEPT ![p] = CorrectedRow(@, r.ok, r.feedback)]
              newUsers ==
                  IF bill THEN [users EXCEPT ![u] = Debit(@, CORRECTION_COST)]
                  ELSE users
              new == FinalWrite(ok, postok, newPapers, newUsers,
                                p, "error_correction", recok)
          IN /\ papers' = new.papers
             /\ users' = new.users
             /\ billed' = IF new.users # users
                          THEN billed \cup {<<p, "correction">>} ELSE billed
             /\ resp' = Reply("correct", u, p,
                              IF ok /\ postok /\ r.ok THEN 200 ELSE 500,
                              r.pre, Extra(r, ok, postok, recok, new.via))

\* ----------------------------------------------------------- manual edit
EditTexts == {<<>>, <<WS>>, <<Word(1)>>}

\* mutant: the edit does not look at the status it finds
EditedStatusAny(status, text) ==
    IF NonBlank(Some(text)) THEN "transcribed" ELSE status

\* mutant: the edit stores the text and leaves the status
EditedStatusKept(status, text) == status

\* the status after PUT /exam_papers/{id}/transcribed_text
EditedStatus(status, text) ==
    IF status \in {"error_transcription", "uploaded"} /\ NonBlank(Some(text))
    THEN "transcribed" ELSE status

EditText(u, p, text) ==
    /\ UNCHANGED <<users, images, nextPaperId, nextImageId, reqs, billed>>
    /\ IF p \notin DOMAIN papers
       THEN /\ resp' = Reply("edit", u, p, 404, Pre(u, p), NoCalls)
            /\ UNCHANGED papers
       ELSE IF papers[p].user_id # u
       THEN /\ resp' = Reply("edit", u, p, 403, Pre(u, p), NoCalls)
            /\ UNCHANGED papers
       ELSE /\ papers' = [papers EXCEPT ![p] =
                   [@ EXCEPT !.transcribed_text = Some(text),
                             !.status = EditedStatus(@, text)]]
            /\ resp' = Reply("edit", u, p, 200, Pre(u, p), Submitted(text))

Edit(u, p, text) == Quiet /\ EditText(u, p, text)

\* ------------------------------------------------------------------ read
\* GET /exam_papers/{id}
Read(u, p) ==
    /\ UNCHANGED <<users, papers, images, nextPaperId, nextImageId, reqs, billed>>
    /\ resp' = Reply("read", u, p,
                     IF p \notin DOMAIN papers THEN 404
                     ELSE IF papers[p].user_id # u THEN 403 ELSE 200,
                     Pre(u, p), NoCalls)

\* ---------------------------------------------------------------- delete
\* mutant: the image rows are left behind
RemoveImagesNone(p) == images

\* session.delete() of every image row of the paper
RemoveImages(p) == images \ ImagesOf(p)

\* DELETE /exam_papers/{id}: the object-store removal is called inside the
\* try block, before the commit; storeok says whether it returns
DeletePaper(u, p, storeok, dbok) ==
    /\ dbok \/ storeok                    \* the commit follows the removal
    /\ UNCHANGED <<users, nextPaperId, nextImageId, reqs>>
    /\ IF p \notin DOMAIN papers
       THEN /\ resp' = Reply("delete", u, p, 404, Pre(u, p), NoCalls)
            /\ UNCHANGED <<papers, images, billed>>
       ELSE IF papers[p].user_id # u
       THEN /\ resp' = Reply("delete", u, p, 403, Pre(u, p), NoCalls)
            /\ UNCHANGED <<papers, images, billed>>
       ELSE IF ImagesOf(p) # {} /\ ~storeok
       THEN /\ resp' = Reply("delete", u, p, 500, Pre(u, p), Removal(FALSE, FALSE))
            /\ UNCHANGED <<papers, images, billed>>
       ELSE IF ~dbok
       THEN /\ resp' = Reply("delete", u, p, 500, Pre(u, p), Removal(TRUE, FALSE))
            /\ UNCHANGED <<papers, images, billed>>
       ELSE /\ papers' = [q \in DOMAIN papers \ {p} |-> papers[q]]
            /\ images' = RemoveImages(p)
            /\ billed' = {b \in billed : b[1] # p}
            /\ resp' = Reply("delete", u, p, 200, Pre(u, p), Removal(TRUE, TRUE))

Delete(u, p, storeok, dbok) == Quiet /\ DeletePaper(u, p, storeok, dbok)

\* ------------------------------------------------------------------ spec
PaperIds == 1..MaxPapers

FileLists == UNION {[1..n -> FileKinds] : n \in 1..MaxPages}

Next ==
    \/ \E u \in Users, files \in FileLists, dbok \in BOOLEAN : Upload(u, files, dbok)
    \/ \E u \in Users, p \in PaperIds : TranscribeBegin(u, p)
    \/ \E s \in Slots, out \in PageOutcomes : TranscribePage(s, out)
    \/ \E s \in Slots, dbok \in BOOLEAN, postok \in BOOLEAN, recok \in BOOLEAN :
           TranscribeFinal(s, dbok, postok, recok)
    \/ \E u \in Users, p \in PaperIds : CorrectBegin(u, p)
    \/ \E s \in Slots, out \in FeedbackOutcomes : CorrectCall(s, out)
    \/ \E s \in Slots, dbok \in BOOLEAN, postok \in BOOLEAN, recok \in BOOLEAN :
           CorrectFinal(s, dbok, postok, recok)
    \/ \E u \in Users, p \in PaperIds, text \in EditTexts : Edit(u, p, text)
    \/ \E u \in Users, p \in PaperIds, storeok \in BOOLEAN, dbok \in BOOLEAN :
           Delete(u, p, storeok, dbok)
    \/ \E u \in Users, p \in PaperIds : Quiet /\ Read(u, p)

Spec == Init /\ [][Next]_vars

\* ---------------------------------------------- requests served concurrently
\* The handlers are coroutines of one event loop: a request runs alone from
\* one await to the next, and other requests run while it waits for the
\* language model.  The concurrent specification starts from a state the
\* sequential one reaches by ConcPapers uploads by "u1", the first of
\* MaxPages pages and the others of one page, and serves at most two
\* requests at a time.
ConcPapers == 2
ConcPaperIds == 1..ConcPapers
ConcPagesOf(p) == IF p = 1 THEN MaxPages ELSE 1
ConcFirstImage(p) == IF p = 1 THEN 1 ELSE MaxPages + p - 1

\* the balances at which two billable requests can both pass the check
ConcCredits == {TRANSCRIPTION_COST, CORRECTION_COST}

\* per call of the language model: it raises, or returns text
ConcOutcomes(outputs) ==
    {Raised} \cup {Returned(t) : t \in {o \in outputs : Strip(o) # <<>>}}

ConcInit ==
    /\ \E c \in ConcCredits : users = ("u1" :> c)
    /\ papers = [p \in ConcPaperIds |-> NewPaper("u1")]
    /\ images = UNION {{[id |-> ConcFirstImage(p) + k - 1, exam_paper_id |-> p,
                          page_number |-> Some(k)] : k \in 1..ConcPagesOf(p)} :
                        p \in ConcPaperIds}
    /\ nextPaperId = ConcPapers + 1
    /\ nextImageId = MaxPages + ConcPapers
    /\ reqs = [s \in Slots |-> Idle]
    /\ resp = NoResp
    /\ billed = {}

ConcNext ==
    \/ \E p \in ConcPaperIds : TranscribeStart("u1", p)
    \/ \E s \in Slots, out \in ConcOutcomes(PageOutputs) : TranscribePage(s, out)
    \/ \E s \in Slots, dbok \in BOOLEAN : TranscribeFinal(s, dbok, TRUE, TRUE)
    \/ \E p \in ConcPaperIds : CorrectStart("u1", p)
    \/ \E s \in Slots, out \in ConcOutcomes(FeedbackOutputs) : CorrectCall(s, out)
    \/ \E s \in Slots, dbok \in BOOLEAN : CorrectFinal(s, dbok, TRUE, TRUE)
    \/ \E p \in ConcPaperIds, text \in {t \in EditTexts : Strip(t) # <<>>} :
           EditText("u1", p, text)
    \/ \E p \in ConcPaperIds : DeletePaper("u1", p, TRUE, TRUE)

SpecConc == ConcInit /\ [][ConcNext]_vars

\* ------------------------------------------------------- uploads at the quota
\* The upload handler awaits the bytes of each file: it runs alone from the
\* count of the user's papers to the commit of the paper row, and again from
\* the last file to the commit of the image rows (or to the deletion of the
\* paper row when a file or that commit fails).
UploadStart(limit, u) ==
    /\ HasFreeSlot
    /\ nextPaperId <= limit
    /\ UNCHANGED <<images, nextImageId, billed>>
    /\ IF QuotaReached(PaperCount(u))
       THEN /\ resp' = Reply("upload", u, 0, 403, Pre(u, 0), NoCalls)
            /\ UNCHANGED <<users, papers, nextPaperId, reqs>>
       ELSE /\ users' = IF u \in DOMAIN users THEN users ELSE users @@ (u :> 0)
            /\ papers' = papers @@ (nextPaperId :> NewPaper(u))
            /\ nextPaperId' = nextPaperId + 1
            /\ reqs' = [reqs EXCEPT ![FreeSlot] =
                   [Idle EXCEPT !.pc = "files", !.op = "upload", !.user = u,
                                !.paper = nextPaperId, !.pre = Pre(u, 0)]]
            /\ resp' = NoResp

\* cleanok says whether the commit that deletes the paper row, in the except
\* branch, goes through; when it does not the handler ends on that exception
UploadFinish(s, files, dbok, cleanok) ==
    /\ reqs[s].pc = "files" /\ reqs[s].op = "upload"
    /\ dbok \/ FirstBad(files, 1) = 0
    /\ LET r == reqs[s]
           p == r.paper
           good == FirstBad(files, 1) = 0 /\ dbok /\ p \in DOMAIN papers
       IN
       /\ cleanok \/ (~good /\ p \in DOMAIN papers)
       /\ reqs' = [reqs EXCEPT ![s] = Idle]
       /\ UNCHANGED <<users, nextPaperId>>
       /\ IF good
          THEN /\ images' = images \cup NewImages(p, Len(files))
               /\ nextImageId' = nextImageId + Len(files)
               /\ UNCHANGED <<papers, billed>>
               /\ resp' = Reply("upload", r.user, p, 200, r.pre, Sent(files, TRUE))
          ELSE IF cleanok
          THEN /\ papers' = [q \in DOMAIN papers \ {p} |-> papers[q]]
               /\ images' = RemoveImages(p)
               /\ billed' = {b \in billed : b[1] # p}
               /\ UNCHANGED nextImageId
               /\ resp' = Reply("upload", r.user, p, 500, r.pre, Undone(files, TRUE))
          ELSE /\ UNCHANGED <<papers, images, billed, nextImageId>>
               /\ resp' = Reply("upload", r.user, p, 500, r.pre, Undone(files, FALSE))

\* The quota specification starts from a state the sequential one reaches
\* when "u1" has uploaded QuotaBase papers of one page each, and goes on for
\* MaxQuotaUploads more uploads; requests address the papers from the last
\* of those on.
MaxQuotaUploads == 3
QuotaBase == MAX_EXAM_PAPERS_PER_USER - 1
QuotaLimit == QuotaBase + MaxQuotaUploads
QuotaIds == QuotaBase..QuotaLimit
OneFile == {f \in FileLists : Len(f) = 1}

QuotaInit ==
    /\ users = ("u1" :> 0)
    /\ papers = [p \in 1..QuotaBase |-> NewPaper("u1")]
    /\ images = {[id |-> p, exam_paper_id |-> p, page_number |-> Some(1)] :
                    p \in 1..QuotaBase}
    /\ nextPaperId = QuotaBase + 1
    /\ nextImageId = QuotaBase + 1
    /\ reqs = [s \in Slots |-> Idle]
    /\ resp = NoResp
    /\ billed = {}

QuotaNext ==
    \/ \E u \in Users : UploadStart(QuotaLimit, u)
    \/ \E s \in Slots, files \in OneFile, dbok \in BOOLEAN :
           UploadFinish(s, files, dbok, TRUE)
    \/ \E p \in QuotaIds, storeok \in BOOLEAN, dbok \in BOOLEAN :
           DeletePaper("u1", p, storeok, dbok)
    \/ \E p \in QuotaIds : Read("u1", p)

SpecQuota == QuotaInit /\ [][QuotaNext]_vars

\* ------------------------------------------------- status query and listing
\* GET /users/me/: the count of the papers of the identity, the quota and
\* the credits of its user row, 0 when it has none
UsersMe(u) ==
    /\ UNCHANGED <<users, papers, images, nextPaperId, nextImageId, reqs, billed>>
    /\ resp' = Reply("me", u, 0, 200, Pre(u, 0),
                     [NoCalls EXCEPT !.body =
                         [NoBody EXCEPT
                            !.current_paper_count = PaperCount(u),
                            !.max_paper_quota = MAX_EXAM_PAPERS_PER_USER,
                            !.credits = IF u \in DOMAIN users THEN users[u] ELSE 0]])

\* created_at is taken when the row is built, so it grows with the id
CreatedAt(p) == p

\* order_by(created_at): ascending
RECURSIVE OrderByCreatedAt(_)
OrderByCreatedAt(S) ==
    IF S = {} THEN <<>>
    ELSE LET m == CHOOSE p \in S : \A q \in S : CreatedAt(p) <= CreatedAt(q)
         IN  <<m>> \o OrderByCreatedAt(S \ {m})

\* GET /exam_papers/ with the default skip and limit, which cut nothing
\* below the quota
List(u) ==
    /\ UNCHANGED <<users, papers, images, nextPaperId, nextImageId, reqs, billed>>
    /\ resp' = Reply("list", u, 0, 200, Pre(u, 0),
                     [NoCalls EXCEPT !.body =
                         [NoBody EXCEPT !.ids = OrderByCreatedAt(
                             {p \in DOMAIN papers : papers[p].user_id = u})]])

\* ------------------------------------------------------ uploads, one by one
\* The upload specification serves one request at a time, with the upload
\* handler cut at its await as above, file lists of up to MaxPages files and
\* a cleanup that may fail, until MaxUploads paper ids are given out.
MaxUploads == 2
UploadIds == 1..MaxUploads

UploadNext ==
    \/ \E u \in Users : Quiet /\ UploadStart(MaxUploads, u)
    \/ \E s \in Slots, files \in FileLists, dbok \in BOOLEAN, cleanok \in BOOLEAN :
           UploadFinish(s, files, dbok, cleanok)
    \/ \E u \in Users, p \in UploadIds : Delete(u, p, TRUE, TRUE)
    \/ \E u \in Users : UsersMe(u)
    \/ \E u \in Users : List(u)

SpecUpload == Init /\ [][UploadNext]_vars

\* ------------------------------------------- transcription of stored pages
\* One paper of "u1" with its image rows as the table examimage admits them:
\* page_number is Optional (models.py), so the rows of a paper may lack it,
\* repeat it, or carry it in another order than their ids.  (The upload above
\* always writes 1..N; rows of the other shapes come from outside it.)
MaxRows == 2
PageNumbers == {None} \cup {Some(k) : k \in 1..MaxRows}

PagesInit ==
    /\ \E c \in 1..2 : users = ("u1" :> c)
    /\ papers = <<NewPaper("u1")>>
    /\ \E n \in 1..MaxRows : \E pn \in [1..n -> PageNumbers] :
          /\ images = {[id |-> k, exam_paper_id |-> 1, page_number |-> pn[k]] : k \in 1..n}
          /\ nextImageId = n + 1
    /\ nextPaperId = 2
    /\ reqs = [s \in Slots |-> Idle]
    /\ resp = NoResp
    /\ billed = {}

PagesNext ==
    \/ TranscribeBegin("u1", 1)
    \/ \E s \in Slots, out \in PageOutcomes : TranscribePage(s, out)
    \/ \E s \in Slots, dbok \in BOOLEAN : TranscribeFinal(s, dbok, TRUE, TRUE)

SpecPages == PagesInit /\ [][PagesNext]_vars

\* ------------------------------------------------- requests cut off in flight
\* A request that waits for the language model may never resume: the client
\* goes away and the task is cancelled at its await, or the process stops.
\* Nothing of the handler runs after that, the except branches included
\* (they catch Exception, not the cancellation).
Interrupt(s) ==
    /\ reqs[s].pc = "ai"
    /\ reqs' = [reqs EXCEPT ![s] = Idle]
    /\ UNCHANGED <<users, papers, images, nextPaperId, nextImageId, resp, billed>>

\* One paper of "u1", of one page, served by up to two requests at a time:
\* transcriptions, corrections, edits with any text and deletes, any of the
\* requests in flight being cut off.
StuckCredits == {CORRECTION_COST, CORRECTION_COST + TRANSCRIPTION_COST}

StuckInit ==
    /\ \E c \in StuckCredits : users = ("u1" :> c)
    /\ papers = <<NewPaper("u1")>>
    /\ images = {[id |-> 1, exam_paper_id |-> 1, page_number |-> Some(1)]}
    /\ nextPaperId = 2
    /\ nextImageId = 2
    /\ reqs = [s \in Slots |-> Idle]
    /\ resp = NoResp
    /\ billed = {}

StuckNext ==
    \/ TranscribeStart("u1", 1)
    \/ \E s \in Slots, out \in ConcOutcomes(PageOutputs) : TranscribePage(s, out)
    \/ \E s \in Slots, dbok \in BOOLEAN : TranscribeFinal(s, dbok, TRUE, TRUE)
    \/ CorrectStart("u1", 1)
    \/ \E s \in Slots, out \in ConcOutcomes(FeedbackOutputs) : CorrectCall(s, out)
    \/ \E s \in Slots, dbok \in BOOLEAN : CorrectFinal(s, dbok, TRUE, TRUE)
    \/ \E text \in EditTexts : EditText("u1", 1, text)
    \/ DeletePaper("u1", 1, TRUE, TRUE)
    \/ \E s \in Slots : Interrupt(s)

SpecStuck == StuckInit /\ [][StuckNext]_vars

\* --------------------------------------------- requests that run to their end
\* Requests served one at a time, the writes of the database all going
\* through.  A handler that awaits the language model resumes when the call
\* returns or raises, and then runs to its return: every call ends, and the
\* final write follows the last call.
LiveNext ==
    \/ \E u \in Users, files \in FileLists : Upload(u, files, TRUE)
    \/ \E u \in Users, p \in PaperIds : TranscribeBegin(u, p)
    \/ \E s \in Slots, out \in PageOutcomes : TranscribePage(s, out)
    \/ \E s \in Slots : TranscribeFinal(s, TRUE, TRUE, TRUE)
    \/ \E u \in Users, p \in PaperIds : CorrectBegin(u, p)
    \/ \E s \in Slots, out \in FeedbackOutcomes : CorrectCall(s, out)
    \/ \E s \in Slots : CorrectFinal(s, TRUE, TRUE, TRUE)
    \/ \E u \in Users, p \in PaperIds, text \in EditTexts : Edit(u, p, text)
    \/ \E u \in Users, p \in PaperIds : Delete(u, p, TRUE, TRUE)

SpecLive ==
    /\ Init /\ [][LiveNext]_vars
    /\ WF_vars(\E s \in Slots, out \in PageOutcomes : TranscribePage(s, out))
    /\ WF_vars(\E s \in Slots : TranscribeFinal(s, TRUE, TRUE, TRUE))
    /\ WF_vars(\E s \in Slots, out \in FeedbackOutcomes : CorrectCall(s, out))
    /\ WF_vars(\E s \in Slots : CorrectFinal(s, TRUE, TRUE, TRUE))

\* ======================================================================
\* Properties
\* ======================================================================
Range(q) == {q[i] : i \in 1..Len(q)}

\* the last response answers a request made by the owner of an existing paper
ByOwner == ~IsNone(resp.pre.paper) /\ Val(resp.pre.paper).user_id = resp.user
Before == Val(resp.pre.paper)
CreditsBefore == Val(resp.pre.credits)
Now == papers[resp.paper]

\* the last response ends a request that was accepted: it called the model
Accepted(op) == resp.op = op /\ resp.outs # <<>>
Rejected(op) == resp.op = op /\ resp.outs = <<>>

Blank(out) == ~out.raised /\ Strip(out.text) = <<>>
Good(out) == ~out.raised /\ Strip(out.text) # <<>>

\* paper and credits are as the request found them
Untouched ==
    /\ resp.paper \in DOMAIN papers
    /\ Now = Before
    /\ users[resp.user] = CreditsBefore

\* the operation a step belongs to
StepOp ==
    IF \E s \in Slots : reqs'[s].pc # "idle"
    THEN (reqs'[CHOOSE s \in Slots : reqs'[s].pc # "idle"]).op
    ELSE resp'.op

Table(op) ==
    CASE op = "transcribe" ->
            {<<"uploaded", "transcribing">>, <<"error_transcription", "transcribing">>,
             <<"transcribing", "transcribed">>,
             <<"transcribing", "error_transcription">>}
      [] op = "correct" ->
            {<<"transcribed", "correcting">>, <<"correcting", "corrected">>,
             <<"correcting", "error_correction">>}
      [] op = "edit" ->
            {<<"uploaded", "transcribed">>, <<"error_transcription", "transcribed">>}
      [] OTHER -> {}

\* the enumeration of the statuses
Statuses ==
    {"uploaded", "transcribing", "transcribed", "error_transcription",
     "correcting", "corrected", "error_correction"}

StatusInEnum == \A p \in DOMAIN papers : papers[p].status \in Statuses

\* the statuses of paper p along a step: the one before, the one the final
\* commit of the step wrote when a recovery write followed it, the one after
StatusWrites(p) ==
    IF /\ \E s \in Slots : reqs[s].pc = "final" /\ reqs'[s].pc = "idle"
       /\ resp'.paper = p /\ ~IsNone(resp'.via)
    THEN <<papers[p].status, Val(resp'.via), papers'[p].status>>
    ELSE <<papers[p].status, papers'[p].status>>

TableStep ==
    /\ \A p \in DOMAIN papers \cap DOMAIN papers' :
         \A i \in 1..(Len(StatusWrites(p)) - 1) :
            StatusWrites(p)[i] # StatusWrites(p)[i + 1]
               => <<StatusWrites(p)[i], StatusWrites(p)[i + 1]>> \in Table(StepOp)
    /\ \A p \in DOMAIN papers' \ DOMAIN papers :
         papers'[p].status = "uploaded" /\ StepOp = "upload"

\* C1 (as claimed): every paper's status is one of the seven of the enumeration, and every
\* step of every operation (the recovery writes included) changes a status
\* only along the table: uploaded/error_transcription -> transcribing ->
\* transcribed | error_transcription by a transcription, transcribed ->
\* correcting -> corrected | error_correction by a correction, and
\* uploaded/error_transcription -> transcribed by a manual edit; a new paper
\* starts as uploaded.
C1_StatusTable == []StatusInEnum /\ [][TableStep]_vars

\* C2 (as claimed): after a transcription whose final write was committed and
\* in which some page call raised or returned empty or whitespace-only
\* output, the credits are as before, transcription_credits_consumed is not
\* set and the paper is in error_transcription.
C2_EmptyPageNotBilled ==
    (Accepted("transcribe") /\ resp.committed
       /\ \E i \in 1..Len(resp.outs) : resp.outs[i].raised \/ Blank(resp.outs[i]))
    => /\ users[resp.user] = CreditsBefore
       /\ Now.transcription_credits_consumed = 0
       /\ Now.status = "error_transcription"

\* C3: after a transcription of a paper with N >= 1 pages whose N calls all
\* returned text and whose final write went through (the commit and the
\* refreshes after it), the paper is
\* transcribed, transcription_credits_consumed is TRANSCRIPTION_COST and the
\* owner has exactly TRANSCRIPTION_COST credits less than when the request
\* arrived (so 0 when it held exactly TRANSCRIPTION_COST).
C3_AllPagesBilledOnce ==
    (Accepted("transcribe") /\ resp.refreshed
       /\ \A i \in 1..Len(resp.outs) : Good(resp.outs[i]))
    => /\ Len(resp.outs) = Cardinality(ImagesOf(resp.paper))
       /\ Now.status = "transcribed"
       /\ Now.transcription_credits_consumed = TRANSCRIPTION_COST
       /\ users[resp.user] = CreditsBefore - TRANSCRIPTION_COST
       /\ (CreditsBefore = TRANSCRIPTION_COST => users[resp.user] = 0)

\* C3 witness: a two-page transcription by a user who held exactly
\* TRANSCRIPTION_COST credits succeeded
C3_Witness ==
    /\ Accepted("transcribe") /\ resp.committed /\ resp.code = 200
    /\ Len(resp.outs) = 2 /\ \A i \in 1..2 : Good(resp.outs[i])
    /\ CreditsBefore = TRANSCRIPTION_COST /\ users[resp.user] = 0

\* the tokens of a text between the header and the footer line of page n
RECURSIVE IndexOf(_, _, _)
IndexOf(text, tok, i) ==
    IF i > Len(text) THEN 0 ELSE IF text[i] = tok THEN i ELSE IndexOf(text, tok, i + 1)

Section(text, n) ==
    LET a == IndexOf(text, Hdr(n), 1)
        b == IndexOf(text, Ftr(n), 1)
    IN  IF a = 0 \/ b = 0 \/ b < a THEN <<>> ELSE SubSeq(text, a + 1, b - 1)

\* the stored text marks exactly the pages whose call raised and carries the
\* text obtained for the pages that returned some
MarksFailedPages(text, pages, outs) ==
    /\ Len(pages) = Len(outs)
    /\ \A i \in 1..Len(pages) :
         LET sec == Section(text, Val(pages[i].page_number)) IN
         /\ sec # <<>>
         /\ (ErrorMark \in Range(sec)) <=> outs[i].raised
         /\ Good(outs[i]) => Strip(sec) = Strip(outs[i].text)

\* C4 (as claimed): after a transcription in which at least one page call raised and whose
\* final write was committed, the paper is in error_transcription,
\* transcription_credits_consumed is 0, the owner's credits are as before,
\* and the stored text has the error placeholder in the section of exactly
\* the pages that raised and the obtained text in the sections of the others.
C4_FailedPageMarked ==
    (Accepted("transcribe") /\ resp.committed
       /\ \E i \in 1..Len(resp.outs) : resp.outs[i].raised)
    => /\ Now.status = "error_transcription"
       /\ Now.transcription_credits_consumed = 0
       /\ users[resp.user] = CreditsBefore
       /\ ~IsNone(Now.transcribed_text)
       /\ MarksFailedPages(Val(Now.transcribed_text),
                           SortedImages(ImagesOf(resp.paper)), resp.outs)

C7_BlankTextAlways400 ==
    (resp.op = "correct" /\ ByOwner /\ ~NonBlank(Before.transcribed_text))
    => (resp.code = 400 /\ Untouched)

\* C7 (amended): a correct request by the owner on a paper whose text is
\* missing, empty or whitespace-only is answered 400 when the paper is
\* transcribed and 409 in every other status (the status is checked first);
\* either way no call is made and the paper and the credits are unchanged.
C7_BlankText400Or409 ==
    (resp.op = "correct" /\ ByOwner /\ ~NonBlank(Before.transcribed_text))
    => /\ resp.code = IF Before.status = "transcribed" THEN 400 ELSE 409
       /\ resp.outs = <<>>
       /\ Untouched

\* C7 witness: a correction was refused with 400 on a transcribed paper whose
\* text is whitespace only
C7_Witness ==
    /\ Rejected("correct") /\ resp.code = 400 /\ ByOwner
    /\ Before.status = "transcribed" /\ Before.transcribed_text = Some(<<WS>>)

\* C8: after a correction whose call raised or returned empty or
\* whitespace-only output and whose final write was committed, the paper is
\* in error_correction, correction_credits_consumed is 0, corrected_feedback
\* and corrected_at are unset, the credits are as before and the answer is
\* 500.
C8_FailedCorrection ==
    (Accepted("correct") /\ resp.committed /\ ~Good(resp.outs[1]))
    => /\ Now.status = "error_correction"
       /\ Now.correction_credits_consumed = 0
       /\ IsNone(Now.corrected_feedback) /\ IsNone(Now.corrected_at)
       /\ users[resp.user] = CreditsBefore
       /\ resp.code = 500

\* C8 witness: the correction call returned whitespace only
C8_Witness ==
    /\ Accepted("correct") /\ resp.committed /\ Blank(resp.outs[1])
    /\ resp.outs[1].text # <<>> /\ Now.status = "error_correction"

\* a step sets corrected_at of paper p
SetsCorrectedAt(p) ==
    /\ p \in DOMAIN papers'
    /\ ~IsNone(papers'[p].corrected_at)
    /\ p \in DOMAIN papers => IsNone(papers[p].corrected_at)

C9_After ==
    (Accepted("correct") /\ resp.refreshed /\ Good(resp.outs[1]))
    => /\ Now.status = "corrected"
       /\ Now.corrected_feedback = Some(resp.outs[1].text)
       /\ Now.correction_credits_consumed = CORRECTION_COST
       /\ Now.correction_prompt_version = Some(CORRECTION_PROMPT_VERSION_CURRENT)
       /\ ~IsNone(Now.corrected_at)
       /\ users[resp.user] = CreditsBefore - CORRECTION_COST
       /\ resp.code = 200

C9_OnlyThen ==
    \A p \in 1..MaxPapers :
       SetsCorrectedAt(p)
          => /\ resp'.op = "correct" /\ resp'.paper = p
             /\ resp'.committed /\ Good(resp'.outs[1])

\* C9: after a correction whose call returned non-blank feedback and whose
\* final write went through (the commit and the refreshes after it), the
\* paper is corrected, corrected_feedback is
\* the returned text, correction_credits_consumed is CORRECTION_COST,
\* correction_prompt_version and corrected_at are set and the owner has
\* exactly CORRECTION_COST credits less; and no step sets corrected_at but the
\* committed final write of a correction whose call returned non-blank
\* feedback.
C9_SuccessfulCorrection == []C9_After /\ [][C9_OnlyThen]_vars

\* C9 witness: a correction succeeded for a user who held exactly
\* CORRECTION_COST credits
C9_Witness ==
    /\ Accepted("correct") /\ resp.code = 200 /\ CreditsBefore = CORRECTION_COST
    /\ users[resp.user] = 0 /\ ~IsNone(Now.corrected_at)

SuccessStatus(step) ==
    IF step = "transcription"
    THEN {"transcribed", "correcting", "corrected", "error_correction"}
    ELSE {"corrected"}

Consumed(p, step) ==
    IF step = "transcription" THEN papers[p].transcription_credits_consumed
    ELSE papers[p].correction_credits_consumed

Cost(step) == IF step = "transcription" THEN TRANSCRIPTION_COST ELSE CORRECTION_COST

\* C10 (as claimed): for every paper and each of its two steps, the credits of the step
\* were debited exactly when the consumed field of the step holds its cost,
\* and then the status is the step's success status (transcribed or later
\* for the transcription, corrected for the correction): a debit is never
\* found with the paper in error_transcription / error_correction or in the
\* transitional status of that step, whatever commits failed on the way.
C10_DebitStatusAuditAgree ==
    \A p \in DOMAIN papers : \A step \in {"transcription", "correction"} :
       /\ <<p, step>> \in billed <=> Consumed(p, step) # 0
       /\ <<p, step>> \in billed
            => papers[p].status \in SuccessStatus(step) /\ Consumed(p, step) = Cost(step)

\* C11 (as claimed): the credits of every user are never negative, whatever
\* the interleaving of the billable requests of the user.
C11_CreditsNonNegative == \A u \in DOMAIN users : users[u] >= 0

\* the requests of one operation in flight on paper p, past the state check
InFlight(p, op) ==
    {s \in Slots : reqs[s].pc # "idle" /\ reqs[s].op = op /\ reqs[s].paper = p}

OneInFlight ==
    \A p \in ConcPaperIds : \A op \in {"transcribe", "correct"} :
       Cardinality(InFlight(p, op)) <= 1

\* a step that debits is the final write of a request on a paper whose step
\* was not billed before, and takes the cost of the step
DebitsOnce ==
    \A u \in DOMAIN users :
       users'[u] # users[u]
          => LET step == IF resp'.op = "transcribe" THEN "transcription"
                         ELSE "correction"
             IN  /\ resp'.op \in {"transcribe", "correct"} /\ resp'.user = u
                 /\ <<resp'.paper, step>> \notin billed
                 /\ <<resp'.paper, step>> \in billed'
                 /\ Consumed(resp'.paper, step) = 0
                 /\ users'[u] = users[u] - Cost(step)

\* C12 (as claimed): under every interleaving of the requests, at most one transcription
\* and at most one correction of a paper is in flight past the state check,
\* and the credits of a step of a paper are debited at most once, by the
\* cost of the step.
C12_NoDoubleBilling == []OneInFlight /\ [][DebitsOnce]_vars

Transitional(op) == IF op = "transcribe" THEN "transcribing" ELSE "correcting"

\* a call of the language model is pending for the request of slot s
CallPending(s) == reqs[s].pc = "ai"

\* C14: whenever a call of the language model is pending for an accepted
\* request, the committed status of its paper, as every other request reads
\* it, is the transitional status of the operation (transcribing /
\* correcting), for as long as the paper exists; and the step that accepts a
\* request commits that status before the first call.
C14_TransitionalBeforeCall ==
    \A s \in Slots :
       CallPending(s)
          => \/ reqs[s].paper \notin DOMAIN papers
             \/ /\ papers[reqs[s].paper].status = Transitional(reqs[s].op)
                /\ Val(reqs[s].pre.paper).status # Transitional(reqs[s].op)

\* C14 witness: the call for the second page of a transcription is pending
\* while a correction of the other paper waits for its call
C14_Witness ==
    /\ CallPending("a") /\ reqs["a"].op = "transcribe" /\ reqs["a"].idx = 2
    /\ CallPending("b") /\ reqs["b"].op = "correct"
    /\ papers[reqs["a"].paper].status = "transcribing"
    /\ papers[reqs["b"].paper].status = "correcting"

ErrorStatus(op) == IF op = "transcribe" THEN "error_transcription" ELSE "error_correction"

\* C13: when the commit of the final write of an accepted transcription
\* (correction) fails, the answer is 500 and nothing is debited; the paper is
\* in error_transcription (error_correction) when the recovery write went
\* through and still in transcribing (correcting) only when the recovery
\* write failed too, which does not change the answer.
C13_RecoveryWrite ==
    \A op \in {"transcribe", "correct"} :
       (Accepted(op) /\ ~resp.committed)
          => /\ resp.code = 500
             /\ resp.paper \in DOMAIN papers
             /\ Now.status = IF resp.recovered THEN ErrorStatus(op)
                              ELSE Transitional(op)
             /\ users[resp.user] = CreditsBefore

\* C13 witness: the final commit of a correction whose call returned feedback
\* failed and so did the recovery write; the answer is 500 and the paper is
\* still correcting
C13_Witness ==
    /\ Accepted("correct") /\ Good(resp.outs[1])
    /\ ~resp.committed /\ ~resp.recovered
    /\ resp.code = 500 /\ Now.status = "correcting"

\* C15 (as claimed): an accepted request in which a call of the language
\* model raised (any page call of a transcription, or the correction call),
\* and whose final write was committed, is answered 500 and leaves the paper
\* in the error status of the operation; it is never answered 200.
C15_FailedCallAnswered500 ==
    \A op \in {"transcribe", "correct"} :
       (Accepted(op) /\ resp.committed
          /\ \E i \in 1..Len(resp.outs) : resp.outs[i].raised)
          => /\ resp.code = 500
             /\ Now.status = ErrorStatus(op)

\* C16: a manual edit by the owner, with text that is not blank, of a paper
\* in uploaded or error_transcription is answered 200, stores the text as
\* submitted and moves the paper to transcribed; the credits of the owner and
\* the two consumed fields are as the request found them.
C16_EditAdvances ==
    (resp.op = "edit" /\ ByOwner /\ NonBlank(resp.input)
       /\ Before.status \in {"uploaded", "error_transcription"})
    => /\ resp.code = 200
       /\ Now.transcribed_text = resp.input
       /\ Now.status = "transcribed"
       /\ users[resp.user] = CreditsBefore
       /\ Now.transcription_credits_consumed = Before.transcription_credits_consumed
       /\ Now.correction_credits_consumed = Before.correction_credits_consumed

\* C16 witness: the edit replaced the text of a paper left in
\* error_transcription by a transcription with a failed page
C16_Witness ==
    /\ resp.op = "edit" /\ ByOwner /\ NonBlank(resp.input)
    /\ Before.status = "error_transcription" /\ ~IsNone(Before.transcribed_text)
    /\ Now.status = "transcribed" /\ Now.transcribed_text = resp.input

OwnerImmutable ==
    \A p \in DOMAIN papers \cap DOMAIN papers' :
       papers'[p].user_id = papers[p].user_id

\* a step that answers a request on an existing paper of another user
ForbiddenStep ==
    (/\ resp'.op \in {"read", "delete", "transcribe", "edit", "correct"}
     /\ ~IsNone(resp'.pre.paper)
     /\ Val(resp'.pre.paper).user_id # resp'.user)
    => /\ resp'.code = 403
       /\ resp'.outs = <<>>
       /\ UNCHANGED <<users, papers, images, reqs, billed>>

\* C17: no step changes the user_id of a paper, and every read, delete,
\* transcribe, edit or correct request on an existing paper by a user who is
\* not its owner is answered 403 in one step that calls no language model
\* and leaves every user, paper and image row as it was.
C17_OwnershipEnforced == [][OwnerImmutable /\ ForbiddenStep]_vars

\* C17 witness: a correction of a transcribed paper with text was asked by
\* another user and refused with 403
C17_Witness ==
    /\ resp.op = "correct" /\ resp.code = 403 /\ ~ByOwner
    /\ Before.status = "transcribed" /\ NonBlank(Before.transcribed_text)
    /\ Now = Before

\* an upload below the quota is not refused for it, and its answer is 200
\* exactly when its files were stored: the paper then exists, owned by the
\* user, in uploaded, with one image row per file
UploadAccepted ==
    (resp.op = "upload" /\ resp.pre.count = MAX_EXAM_PAPERS_PER_USER - 1)
    => /\ resp.code \in {200, 500}
       /\ resp.code = 200 <=> resp.committed
       /\ resp.code = 200
            => /\ FirstBad(Val(resp.input), 1) = 0
               /\ resp.paper \in DOMAIN papers
               /\ Now.user_id = resp.user /\ Now.status = "uploaded"
               /\ Cardinality(ImagesOf(resp.paper)) = Len(Val(resp.input))
               /\ PaperCount(resp.user) <= MAX_EXAM_PAPERS_PER_USER

\* a step that answers an upload which found the quota reached
UploadRejected ==
    /\ (resp'.op = "upload" /\ resp'.pre.count >= MAX_EXAM_PAPERS_PER_USER)
         => /\ resp'.code = 403
            /\ UNCHANGED <<users, papers, images, nextPaperId, nextImageId, reqs>>
    /\ (resp'.op = "upload" /\ resp'.code = 403)
         => resp'.pre.count >= MAX_EXAM_PAPERS_PER_USER

\* C18: an upload by a user who holds MAX_EXAM_PAPERS_PER_USER papers is
\* answered 403 in a step that creates no paper, image or user row, and 403
\* is answered to no other upload; an upload by a user who holds
\* MAX_EXAM_PAPERS_PER_USER - 1 papers is accepted: it is answered 200 when
\* its files are stored, with the paper and its image rows in place.
C18_QuotaBoundary == []UploadAccepted /\ [][UploadRejected]_vars

\* C18 witness: an upload that found MAX_EXAM_PAPERS_PER_USER - 1 papers was
\* answered 200 and the user now holds MAX_EXAM_PAPERS_PER_USER
C18_Witness ==
    /\ resp.op = "upload" /\ resp.code = 200
    /\ resp.pre.count = MAX_EXAM_PAPERS_PER_USER - 1
    /\ PaperCount(resp.user) = MAX_EXAM_PAPERS_PER_USER

\* C19: the number of papers stored for a user never exceeds
\* MAX_EXAM_PAPERS_PER_USER, whatever the interleaving of the uploads of the
\* user (each counts the papers and inserts its own before its first await).
C19_QuotaNeverExceeded == \A u \in Users : PaperCount(u) <= MAX_EXAM_PAPERS_PER_USER

\* C19 witness: the user holds MAX_EXAM_PAPERS_PER_USER papers, the last
\* inserted by an upload still reading its files, and another upload of the
\* same user has just been refused
C19_Witness ==
    /\ PaperCount("u1") = MAX_EXAM_PAPERS_PER_USER
    /\ \E s \in Slots : reqs[s].op = "upload" /\ reqs[s].user = "u1"
                          /\ reqs[s].pre.count = MAX_EXAM_PAPERS_PER_USER - 1
    /\ resp.op = "upload" /\ resp.user = "u1" /\ resp.code = 403

\* after a delete answered 200 the paper row and its image rows are gone and
\* the owner holds one paper less than the request found
DeleteRemoves ==
    (resp.op = "delete" /\ resp.code = 200)
    => /\ ByOwner
       /\ resp.paper \notin DOMAIN papers
       /\ ImagesOf(resp.paper) = {}
       /\ PaperCount(resp.user) = resp.pre.count - 1

\* a read of an id that has no row is answered 404
ReadGone == (resp.op = "read" /\ resp.paper \notin DOMAIN papers) => resp.code = 404

\* an id that was given out and has no row never has one again
NeverBack ==
    \A p \in 1..QuotaLimit :
       (p < nextPaperId /\ p \notin DOMAIN papers) => p \notin DOMAIN papers'

\* C20: after a delete by the owner answered 200, no paper row with the id
\* and no image row of the paper exists, the owner holds one paper less, and
\* every later read of the id is answered 404: the id never gets a row again.
C20_DeleteRemovesAll == [](DeleteRemoves /\ ReadGone) /\ [][NeverBack]_vars

\* C20 witness: a paper of the initial ones was deleted, the user filled the
\* quota again with new uploads, and a read of the deleted id is answered 404
C20_Witness ==
    /\ resp.op = "read" /\ resp.code = 404 /\ resp.paper = QuotaBase
    /\ ImagesOf(resp.paper) = {}
    /\ PaperCount(resp.user) = MAX_EXAM_PAPERS_PER_USER

\* C21 (as claimed): when the object store fails to remove the blobs of a
\* paper that its owner deletes, the paper row and its image rows are deleted
\* all the same and the request is answered 200.
C21_BlobRemovalBestEffort ==
    (resp.op = "delete" /\ ByOwner /\ resp.store = "failed")
    => /\ resp.code = 200
       /\ resp.paper \notin DOMAIN papers
       /\ ImagesOf(resp.paper) = {}

\* the kind of the first file of the last upload that is not a good image
FirstBadKind ==
    LET files == Val(resp.input)
        i == FirstBad(files, 1)
    IN  IF i = 0 THEN "image" ELSE files[i]

\* the last response ends an upload that got past the quota
UploadDone == resp.op = "upload" /\ ~IsNone(resp.input)

\* C22 (as claimed): when an upload fails after its paper row was created,
\* then at the answer the paper row of the batch is gone, no image row of it
\* remains and the user holds as many papers as before the request.
C22_FailedUploadRolledBack ==
    (UploadDone /\ resp.code # 200)
    => /\ resp.paper \notin DOMAIN papers
       /\ ImagesOf(resp.paper) = {}
       /\ Cardinality({p \in DOMAIN papers : papers[p].user_id = resp.user})
            = resp.pre.count

\* C23 (as claimed): an upload whose first bad file is not an image is
\* answered 400, one whose first bad file is too large is answered 413, and
\* the batch leaves no paper.
C23_InvalidFileCode ==
    (UploadDone /\ FirstBadKind \in {"not_image", "too_large"})
    => /\ resp.code = IF FirstBadKind = "not_image" THEN 400 ELSE 413
       /\ (resp.recovered => resp.paper \notin DOMAIN papers)

\* the last request was refused for validation or authorization: by its
\* status code, or because the handler raised the 400 / 413 of a bad file
RefusedRequest ==
    \/ resp.code \in {400, 402, 403, 404, 409, 413}
    \/ UploadDone /\ FirstBadKind \in {"not_image", "too_large"}

\* C24 (as claimed): after a request refused for validation or authorization
\* the user rows, the paper rows and the image rows are those the request
\* found: no user row was created, the credits, the paper the request names
\* and the number of papers of the user are unchanged.
C24_RefusedBeforeMutation ==
    RefusedRequest
    => /\ resp.user \in DOMAIN users <=> ~IsNone(resp.pre.credits)
       /\ resp.user \in DOMAIN users => users[resp.user] = CreditsBefore
       /\ Cardinality({p \in DOMAIN papers : papers[p].user_id = resp.user})
            = resp.pre.count
       /\ ~IsNone(resp.pre.paper)
            => resp.paper \in DOMAIN papers /\ Now = Before

\* the image rows of paper p carry the page numbers 1..n, in the order in
\* which the rows were added
PagesInOrder(p, n) ==
    /\ Cardinality(ImagesOf(p)) = n
    /\ {i.page_number : i \in ImagesOf(p)} = {Some(k) : k \in 1..n}
    /\ \A i, j \in ImagesOf(p) :
         i.id < j.id <=> Val(i.page_number) < Val(j.page_number)

\* C25: an upload of N >= 1 good image files answered 200 has created one
\* paper, owned by the requester, in uploaded, without text and with both
\* consumed fields 0, and exactly N image rows of that paper, numbered 1..N
\* in the order of the files; while the handler reads the files the paper
\* row is already there and has no image row yet.
C25_UploadCreates ==
    /\ (resp.op = "upload" /\ resp.code = 200)
         => /\ Len(Val(resp.input)) >= 1 /\ FirstBadKind = "image"
            /\ resp.paper \in DOMAIN papers
            /\ Now.user_id = resp.user /\ Now.status = "uploaded"
            /\ IsNone(Now.transcribed_text)
            /\ Now.transcription_credits_consumed = 0
            /\ Now.correction_credits_consumed = 0
            /\ PagesInOrder(resp.paper, Len(Val(resp.input)))
            /\ Cardinality({p \in DOMAIN papers : papers[p].user_id = resp.user})
                 = resp.pre.count + 1
    /\ \A s \in Slots :
         reqs[s].pc = "files"
            => /\ reqs[s].paper \in DOMAIN papers
               /\ papers[reqs[s].paper].user_id = reqs[s].user
               /\ ImagesOf(reqs[s].paper) = {}

\* C25 witness: the second upload of a user was answered 200 for two files
C25_Witness ==
    /\ resp.op = "upload" /\ resp.code = 200 /\ resp.paper = 2
    /\ Len(Val(resp.input)) = 2 /\ resp.pre.count = 1
    /\ PagesInOrder(2, 2)

\* a step leaves every user row in place and changes the credits of a user
\* only by the debit of the final write of a successful transcription or
\* correction of that user
CreditsStep ==
    \A u \in DOMAIN users :
       /\ u \in DOMAIN users'
       /\ users'[u] <= users[u]
       /\ users'[u] # users[u]
            => /\ resp'.user = u /\ resp'.code = 200 /\ resp'.committed
               /\ \/ /\ resp'.op = "transcribe"
                     /\ users'[u] = users[u] - TRANSCRIPTION_COST
                     /\ papers'[resp'.paper].status = "transcribed"
                  \/ /\ resp'.op = "correct"
                     /\ users'[u] = users[u] - CORRECTION_COST
                     /\ papers'[resp'.paper].status = "corrected"

\* C26 (as claimed): the credits of a user never increase and change only by
\* TRANSCRIPTION_COST in the success branch of a transcription or by
\* CORRECTION_COST in the success branch of a correction; every other step,
\* every refused and every failed request leaves them, and no step deletes a
\* user row.
C26_CreditsOnlyDebited == [][CreditsStep]_vars

\* C27 (as claimed): after an upload or a status query by an identity that
\* had no user row, a user row of that identity exists.
C27_UserRowCreatedLazily ==
    (resp.op \in {"upload", "me"} /\ IsNone(resp.pre.credits))
    => resp.user \in DOMAIN users

\* C28 (as claimed): a listing returns only papers of the requester, the
\* later created before the earlier created.
C28_ListNewestFirst ==
    resp.op = "list"
    => LET ids == resp.body.ids IN
       /\ \A i \in 1..Len(ids) :
            ids[i] \in DOMAIN papers /\ papers[ids[i]].user_id = resp.user
       /\ \A i, j \in 1..Len(ids) : i < j => CreatedAt(ids[i]) > CreatedAt(ids[j])

\* C29: the status query answers 200 with current_paper_count the number of
\* paper rows of the requester, max_paper_quota MAX_EXAM_PAPERS_PER_USER and
\* credits the balance of the requester (0 for an identity without a user
\* row), after any sequence of uploads and deletes.
C29_StatusQueryReports ==
    resp.op = "me"
    => /\ resp.code = 200
       /\ resp.body.current_paper_count =
            Cardinality({p \in DOMAIN papers : papers[p].user_id = resp.user})
       /\ resp.body.max_paper_quota = MAX_EXAM_PAPERS_PER_USER
       /\ resp.body.credits =
            IF resp.user \in DOMAIN users THEN users[resp.user] ELSE 0

\* C29 witness: of two papers uploaded by a user one was deleted, and the
\* status query reports one paper
C29_Witness ==
    /\ resp.op = "me" /\ resp.body.current_paper_count = 1
    /\ nextPaperId = 3 /\ Cardinality(DOMAIN papers) = 1
    /\ resp.pre.count = 1 /\ resp.user \in DOMAIN users

\* image a is of an earlier page than image b: both carry a page_number and
\* that of a is smaller, or only a carries one
EarlierPage(a, b) ==
    /\ ~IsNone(a.page_number)
    /\ IsNone(b.page_number) \/ Val(a.page_number) < Val(b.page_number)

\* seq holds every image row of paper p once, none of an earlier page after
\* one of a later page
AscendingPagesOf(seq, p) ==
    /\ Len(seq) = Cardinality(ImagesOf(p))
    /\ {seq[i] : i \in 1..Len(seq)} = ImagesOf(p)
    /\ \A i, j \in 1..Len(seq) : i < j => ~EarlierPage(seq[j], seq[i])

\* the text of the pages seq whose calls of the language model ended as outs
TextOfPages(seq, outs) ==
    Strip(Join([i \in 1..Len(seq) |-> PagePart(PageLabel(seq[i], i - 1), outs[i])]))

\* C30: a transcription submits the image rows of the paper to the language
\* model in ascending page_number order, the rows without page_number last,
\* one call per row whether or not the calls before it raised; and the text
\* its final write stores is the concatenation, in that order, of the parts
\* of the pages.
C30_EveryPageOnceInOrder ==
    /\ \A s \in Slots :
         reqs[s].op = "transcribe"
            => /\ AscendingPagesOf(reqs[s].pages, reqs[s].paper)
               /\ Len(reqs[s].outs) = reqs[s].idx - 1
               /\ Len(reqs[s].parts) = Len(reqs[s].outs)
               /\ reqs[s].pc = "final" <=> Len(reqs[s].outs) = Len(reqs[s].pages)
               /\ reqs[s].pc = "final" =>
                     Join(reqs[s].parts) = Join([i \in 1..Len(reqs[s].pages) |->
                         PagePart(PageLabel(reqs[s].pages[i], i - 1), reqs[s].outs[i])])
    /\ (resp.op = "transcribe" /\ resp.committed)
         => /\ Len(resp.outs) = Cardinality(ImagesOf(resp.paper))
            /\ \E seq \in [1..Len(resp.outs) -> ImagesOf(resp.paper)] :
                  /\ AscendingPagesOf(seq, resp.paper)
                  /\ Now.transcribed_text = Some(TextOfPages(seq, resp.outs))

\* C30 witness: of two image rows the first lacks page_number and the second
\* is page 1; the call for page 1 raised, the call for the other returned a
\* text, and the text stored has page 1 first
C30_Witness ==
    /\ resp.op = "transcribe" /\ resp.committed
    /\ \E a, b \in ImagesOf(resp.paper) :
          /\ a.id < b.id /\ IsNone(a.page_number) /\ b.page_number = Some(1)
          /\ Len(resp.outs) = 2
          /\ resp.outs[1].raised /\ ~resp.outs[2].raised
          /\ NonBlank(Some(resp.outs[2].text))
          /\ Now.transcribed_text = Some(TextOfPages(<<b, a>>, resp.outs))

\* every image row references a paper row that exists
ImagesReferPapers == \A i \in images : i.exam_paper_id \in DOMAIN papers

\* the paper of an upload answered 200 has an image row
UploadedHasImage ==
    (resp.op = "upload" /\ resp.code = 200)
    => resp.paper \in DOMAIN papers /\ ImagesOf(resp.paper) # {}

\* a step takes the last image row from no paper that stays
KeepsImages ==
    \A p \in DOMAIN papers \cap DOMAIN papers' :
       ImagesOf(p) # {} => {i \in images' : i.exam_paper_id = p} # {}

\* C31: after any sequence of uploads, failed uploads and deletes every image
\* row references a paper row that exists, and every paper an upload has
\* completed (answered 200) has at least one image row for as long as the
\* paper exists.
C31_ReferentialIntegrity ==
    [](ImagesReferPapers /\ UploadedHasImage) /\ [][KeepsImages]_vars

\* C31 witness: of two papers uploaded one was deleted; the other keeps its
\* image rows and no image row of the deleted one is left
C31_Witness ==
    /\ resp.op = "delete" /\ resp.code = 200
    /\ DOMAIN papers # {} /\ images # {}
    /\ ImagesOf(resp.paper) = {}
    /\ \A p \in DOMAIN papers : ImagesOf(p) # {}
    /\ nextPaperId > MaxUploads

\* C32: a manual edit by the owner of a paper whose status is neither
\* uploaded nor error_transcription, or whose new text is empty or only
\* whitespace, stores the text and leaves the status, corrected_feedback, the
\* two consumed fields (and every other field of the row) and the credits of
\* the owner as it found them.
C32_EditOnlyOverwritesText ==
    (/\ resp.op = "edit" /\ resp.code = 200
     /\ \/ Before.status \notin {"uploaded", "error_transcription"}
        \/ ~NonBlank(resp.input))
    => /\ resp.paper \in DOMAIN papers
       /\ Now.transcribed_text = resp.input
       /\ Now.status = Before.status
       /\ Now.corrected_feedback = Before.corrected_feedback
       /\ Now.transcription_credits_consumed = Before.transcription_credits_consumed
       /\ Now.correction_credits_consumed = Before.correction_credits_consumed
       /\ Now = [Before EXCEPT !.transcribed_text = resp.input]
       /\ users[resp.user] = CreditsBefore

\* C32 witness: a corrected paper was given a new non-blank text and is
\* still corrected, with its feedback and its audit fields
C32_Witness ==
    /\ resp.op = "edit" /\ resp.code = 200
    /\ Before.status = "corrected" /\ NonBlank(resp.input)
    /\ Now.status = "corrected" /\ Now.transcribed_text = resp.input
    /\ Now.transcribed_text # Before.transcribed_text
    /\ Now.correction_credits_consumed = CORRECTION_COST

\* C33: under every interleaving of transcriptions, corrections, edits and
\* deletes, the text a correction hands to the language model is not blank,
\* also when an edit stores a blank text while the call is under way.
C33_CorrectionTextNonBlank ==
    \A s \in Slots :
       (reqs[s].op = "correct" /\ reqs[s].pc \in {"ai", "final"})
       => /\ Len(reqs[s].parts) = 1
          /\ NonBlank(Some(reqs[s].parts[1]))

\* C33 witness: a correction has called the language model with a non-blank
\* text, and an edit has since stored a blank text in the row
C33_Witness ==
    \E s \in Slots :
       /\ reqs[s].op = "correct" /\ reqs[s].pc = "final"
       /\ NonBlank(Some(reqs[s].parts[1]))
       /\ reqs[s].paper \in DOMAIN papers
       /\ ~NonBlank(papers[reqs[s].paper].transcribed_text)
       /\ resp.op = "edit" /\ resp.code = 200

\* paper p is in a transitional status and no request is in flight on it
Stuck(p) ==
    /\ papers[p].status \in {"transcribing", "correcting"}
    /\ \A s \in Slots : reqs[s].pc = "idle" \/ reqs[s].paper # p

\* a step leaves a stuck paper in its status unless it deletes the paper,
\* and answers 409 to a transcription or a correction of it
StuckStays ==
    \A p \in DOMAIN papers :
       Stuck(p)
       => /\ p \in DOMAIN papers' => papers'[p].status = papers[p].status
          /\ p \notin DOMAIN papers' => resp'.op = "delete"
          /\ reqs' = reqs
          /\ (resp' # resp /\ resp'.paper = p /\ resp'.user = papers[p].user_id
                /\ resp'.op \in {"transcribe", "correct"})
               => resp'.code = 409 /\ resp'.outs = <<>>

\* C35: a paper that a cut-off request left in transcribing or correcting
\* stays in that status under every later request but a delete: a
\* transcription and a correction of it are answered 409 and start no call,
\* an edit stores its text and leaves the status.
C35_StuckInTransitional == [][StuckStays]_vars

\* C35 witness: an edit has stored a non-blank text in a paper that a cut-off
\* transcription left in transcribing
C35_Witness ==
    /\ resp.op = "edit" /\ resp.code = 200 /\ NonBlank(resp.input)
    /\ Before.status = "transcribing"
    /\ resp.paper \in DOMAIN papers /\ Stuck(resp.paper)
    /\ Now.transcribed_text = resp.input

TerminalStatuses == {"corrected", "error_correction"}

\* a transcription or a correction by the owner of a paper in a terminal
\* status is answered 409, calls nothing and changes nothing
TerminalRefused ==
    (resp.op \in {"transcribe", "correct"} /\ ByOwner
       /\ Before.status \in TerminalStatuses)
    => resp.code = 409 /\ resp.outs = <<>> /\ Untouched

\* a step leaves a paper in a terminal status in that status, unless it is
\* the delete that removes the paper
TerminalStays ==
    \A p \in DOMAIN papers :
       papers[p].status \in TerminalStatuses
       => /\ p \in DOMAIN papers' => papers'[p].status = papers[p].status
          /\ p \notin DOMAIN papers' => resp'.op = "delete" /\ resp'.code = 200

HasReturned(op, done) ==
    /\ Quiet /\ Accepted(op)
    /\ resp.paper \in DOMAIN papers /\ Now.status \in done

\* no request is in flight and no paper is in a transitional status
NoneLeftInFlight ==
    Quiet => \A p \in DOMAIN papers :
                papers[p].status \notin {"transcribing", "correcting"}

\* C36: an accepted transcription (correction) that is not cut off, whose
\* calls of the language model all return or raise and whose writes go
\* through, returns in the end with the paper in transcribed or
\* error_transcription (corrected or error_correction); once the request has
\* returned, the paper is not in the transitional status.
C36_AcceptedRequestsComplete ==
    /\ (\E s \in Slots : reqs[s].pc # "idle" /\ reqs[s].op = "transcribe")
         ~> HasReturned("transcribe", {"transcribed", "error_transcription"})
    /\ (\E s \in Slots : reqs[s].pc # "idle" /\ reqs[s].op = "correct")
         ~> HasReturned("correct", {"corrected", "error_correction"})
    /\ []NoneLeftInFlight

\* C36 witness: a two-page transcription whose second call raised has
\* returned and left the paper in error_transcription
C36_Witness ==
    /\ HasReturned("transcribe", {"error_transcription"})
    /\ Len(resp.outs) = 2 /\ Good(resp.outs[1]) /\ resp.outs[2].raised
    /\ resp.refreshed /\ resp.code = 200

\* the sum of the two consumed fields over the papers S of the table rows
RECURSIVE ConsumedSum(_, _)
ConsumedSum(rows, S) ==
    IF S = {} THEN 0
    ELSE LET p == CHOOSE q \in S : TRUE
         IN  rows[p].transcription_credits_consumed
               + rows[p].correction_credits_consumed
               + ConsumedSum(rows, S \ {p})

PapersOf(rows, u) == {p \in DOMAIN rows : rows[p].user_id = u}

\* a step that deletes no paper of a user keeps the sum of the user's
\* credits and of the consumed fields of the user's papers
AuditStep ==
    \A u \in DOMAIN users :
       PapersOf(papers, u) \subseteq DOMAIN papers'
       => users'[u] + ConsumedSum(papers', PapersOf(papers', u))
            = users[u] + ConsumedSum(papers, PapersOf(papers, u))

\* C37 (as claimed): for a user none of whose papers was deleted, the
\* credits the user started with less the credits held now are the sum of
\* transcription_credits_consumed + correction_credits_consumed over the
\* user's papers; a user starts with no paper, so this is to say that every
\* step keeps the credits plus that sum.
C37_AuditAccountsForDebits == [][AuditStep]_vars

\* C38 (as claimed): a paper in corrected has non-empty corrected_feedback,
\* correction_credits_consumed = CORRECTION_COST, corrected_at and
\* correction_prompt_version set; a paper in any other status has neither
\* corrected_feedback nor corrected_at.
C38_CorrectedFields ==
    \A p \in DOMAIN papers :
       IF papers[p].status = "corrected"
       THEN /\ ~IsNone(papers[p].corrected_feedback)
            /\ Val(papers[p].corrected_feedback) # <<>>
            /\ papers[p].correction_credits_consumed = CORRECTION_COST
            /\ ~IsNone(papers[p].corrected_at)
            /\ ~IsNone(papers[p].correction_prompt_version)
       ELSE /\ IsNone(papers[p].corrected_feedback)
            /\ IsNone(papers[p].corrected_at)

\* the tables are left as they are
TablesKept == UNCHANGED <<users, papers, images, nextPaperId, nextImageId, billed>>

\* every step of a request whose paper was deleted while it was in flight
\* leaves the tables, and the step that ends it answers 500
DeletedInFlightStep ==
    \A s \in Slots :
       (/\ reqs[s].pc \in {"ai", "final"}
        /\ reqs[s].op \in {"transcribe", "correct"}
        /\ reqs[s].paper \notin DOMAIN papers
        /\ reqs'[s] # reqs[s])
       => /\ TablesKept
          /\ reqs'[s].pc = "idle"
               => /\ resp'.op = reqs[s].op /\ resp'.paper = reqs[s].paper
                  /\ resp'.code = 500 /\ ~resp'.committed

\* C39: when the owner deletes a paper while a transcription or a
\* correction of it is in flight (the transitional status written, the final
\* write not yet made), the request in flight debits nothing, brings back
\* neither the paper row nor an image row, and is answered 500.
C39_DeletedWhileInFlight == [][DeletedInFlightStep]_vars

\* C39 witness: a transcription whose calls all returned text was answered
\* 500 because its paper had been deleted meanwhile; the credits are those
\* it found
C39_Witness ==
    /\ Accepted("transcribe") /\ resp.code = 500 /\ ~resp.committed
    /\ \A i \in 1..Len(resp.outs) : Good(resp.outs[i])
    /\ resp.paper \notin DOMAIN papers /\ ImagesOf(resp.paper) = {}
    /\ users[resp.user] = CreditsBefore

====
